---- MODULE Spec2Model ----
(***************************************************************************)
(* The CUDA backend's device registry (src/backend/cuda/platform.cpp):     *)
(* the lazily constructed DeviceManager singleton, its discovery sequence, *)
(* the four std::sort comparators and the active device selection.         *)
(*                                                                         *)
(* The native CUDA runtime is outside the repository.  It is modelled by   *)
(* the platform variables (nativeProps, curDevice) and by the error codes  *)
(* its calls may return, chosen nondeterministically.                      *)
(***************************************************************************)
EXTENDS Integers, Sequences, FiniteSets, TLC

(***************************************************************************)
(* Bounds                                                                  *)
(***************************************************************************)
\* largest number of devices the simulated native platform reports
MaxDevices == 3
\* largest number of times the constructor is entered in one behaviour
MaxDiscoveries == 2
\* largest number of devices where failing property queries, racing threads
\* or the lookups and reports are explored
MaxFewDevices == 2
\* number of threads racing for the registry
NThreads == 2

(***************************************************************************)
(* Simulated capability descriptors (cudaDeviceProp), the name standing    *)
(* for the device's name string.  clockRate is what                        *)
(* the runtime reports; totalGlobalMem is in bytes.  K35, M50 and F20 are  *)
(* the three devices of the ranking scenario; K30 shares its major         *)
(* revision and its memory size with K35 and reports its clock in kHz.     *)
(***************************************************************************)
K35 == [name |-> "K35", major |-> 3, minor |-> 5, multiProcessorCount |-> 15,
        clockRate |-> 745, totalGlobalMem |-> 3145729]
M50 == [name |-> "M50", major |-> 5, minor |-> 0, multiProcessorCount |-> 20,
        clockRate |-> 1000, totalGlobalMem |-> 1073741824]
F20 == [name |-> "F20", major |-> 2, minor |-> 0, multiProcessorCount |-> 8,
        clockRate |-> 1500, totalGlobalMem |-> 3145728]
K30 == [name |-> "K30", major |-> 3, minor |-> 0, multiProcessorCount |-> 8,
        clockRate |-> 1500000, totalGlobalMem |-> 3145729]
Catalogue == {K35, M50, F20, K30}

\* sequences over S of length 0..n
SeqUpTo(S, n) == UNION {[1..k -> S] : k \in 0..n}

\* the platforms discovery may meet: 0..MaxDevices devices, any descriptors
Platforms == SeqUpTo(Catalogue, MaxDevices)

(***************************************************************************)
(* 32-bit int arithmetic.  dev.flops is an int and the product of line 277 *)
(* is computed in int; it is modelled as wrapping modulo 2^32, which is    *)
(* what the two's-complement builds do.  The product is formed on 8-bit    *)
(* limbs so that no intermediate value leaves the checker's integer range. *)
(***************************************************************************)
Limb(x, i) == CASE i = 0 -> x % 256
                [] i = 1 -> (x \div 256) % 256
                [] i = 2 -> (x \div 65536) % 256
                [] i = 3 -> (x \div 16777216) % 256

\* two's-complement int from four little-endian bytes
FromLimbs(r0, r1, r2, r3) ==
    (IF r3 >= 128 THEN r3 - 256 ELSE r3) * 16777216 + r2 * 65536 + r1 * 256 + r0

\* a * b in int; Limb reads a negative operand as its two's complement
MulInt32(a, b) ==
    LET c0 == Limb(a,0) * Limb(b,0)
        c1 == Limb(a,0) * Limb(b,1) + Limb(a,1) * Limb(b,0)
        c2 == Limb(a,0) * Limb(b,2) + Limb(a,1) * Limb(b,1) + Limb(a,2) * Limb(b,0)
        c3 == Limb(a,0) * Limb(b,3) + Limb(a,1) * Limb(b,2)
              + Limb(a,2) * Limb(b,1) + Limb(a,3) * Limb(b,0)
        t1 == c1 + (c0 \div 256)
        t2 == c2 + (t1 \div 256)
        t3 == c3 + (t2 \div 256)
    IN  FromLimbs(c0 % 256, t1 % 256, t2 % 256, t3 % 256)

(***************************************************************************)
(* HELPERS                                                                 *)
(***************************************************************************)
\* the gpus[] table, keyed by (major << 4) + minor
gpus == << <<16, 8>>, <<17, 8>>, <<18, 8>>, <<19, 8>>, <<32, 32>>, <<33, 48>>,
           <<48, 192>>, <<53, 192>>, <<80, 128>> >>

compute2cores(major, minor) ==
    LET hits == {i \in 1..Len(gpus) : gpus[i][1] = major * 16 + minor}
    IN  IF hits = {} THEN 0
        ELSE gpus[CHOOSE i \in hits : \A j \in hits : i <= j][2]

\* dev.flops of line 277: the product is taken left to right, in int
flopsOf(prop) ==
    MulInt32(MulInt32(prop.multiProcessorCount,
                      compute2cores(prop.major, prop.minor)),
             prop.clockRate)

\* the cudaDevice_t pushed for native index i (loop body, lines 275-279)
makeDevice(prop, i) == [prop |-> prop, flops |-> flopsOf(prop), nativeId |-> i]

\* COMPARE(a,b,f): returns (a)->f >= (b)->f, whatever follows it
COMPARE(af, bf) == af >= bf

\* Each comparator returns from its first COMPARE: the later COMPARE lines
\* and the final "return 0" are never reached.
card_compare_compute(l, r) == COMPARE(l.prop.major, r.prop.major)

\* variant: the operands of the first COMPARE swapped
card_compare_flops_swapped(l, r) == COMPARE(r.flops, l.flops)

card_compare_flops(l, r) == COMPARE(l.flops, r.flops)

card_compare_mem(l, r) == COMPARE(l.prop.totalGlobalMem, r.prop.totalGlobalMem)

card_compare_num(l, r) == COMPARE(l.nativeId, r.nativeId)

Modes == {"memory", "flops", "compute", "none"}

\* the comparator sortDevices hands to std::sort for a mode
comp(mode, l, r) ==
    CASE mode = "memory"  -> card_compare_mem(l, r)
      [] mode = "flops"   -> card_compare_flops(l, r)
      [] mode = "compute" -> card_compare_compute(l, r)
      [] OTHER            -> card_compare_num(l, r)

(***************************************************************************)
(* std::sort(cuDevices.begin(), cuDevices.end(), comp).                    *)
(* Every comparator is a >=, which is reflexive and so no strict weak      *)
(* ordering: the call's result is not defined by the language wherever two *)
(* elements compare equal.  The model takes every outcome a terminating    *)
(* sort can leave: any permutation in which each element compares          *)
(* before-or-equal to every later one.  With pairwise distinct keys that   *)
(* is the one descending sequence; among equal keys every arrangement is   *)
(* an outcome (libstdc++'s insertion sort reverses them on each call).     *)
(***************************************************************************)
\* variant: elements are copied over one another instead of exchanged
Permuted_copying(devs) ==
    {[i \in 1..Len(devs) |-> devs[p[i]]] : p \in [1..Len(devs) -> 1..Len(devs)]}

Permuted(devs) ==
    {[i \in 1..Len(devs) |-> devs[p[i]]] : p \in Permutations(1..Len(devs))}

stdSort(devs, mode) ==
    {out \in Permuted(devs) :
        \A i, j \in 1..Len(out) : i < j => comp(mode, out[i], out[j])}

\* DeviceManager::sortDevices(mode): the sequences it may leave in cuDevices
sortDevices(devs, mode) == stdSort(devs, mode)

(***************************************************************************)
(* The native runtime                                                      *)
(***************************************************************************)
cudaSuccess == "cudaSuccess"
cudaErrorNoDevice == "cudaErrorNoDevice"
cudaErrorInvalidDevice == "cudaErrorInvalidDevice"
cudaErrorUnknown == "cudaErrorUnknown"

\* cudaGetDeviceCount on a platform of n devices: with no device the runtime
\* reports cudaErrorNoDevice, or success with a count of 0; any call may fail
cudaGetDeviceCount(n) ==
    IF n = 0 THEN {cudaSuccess, cudaErrorNoDevice}
    ELSE {cudaSuccess, cudaErrorUnknown}

\* cudaSetDevice(device) on a platform of n devices
cudaSetDevice(device, n) ==
    IF device \in 0..(n - 1) THEN {cudaSuccess, cudaErrorUnknown}
    ELSE {cudaErrorInvalidDevice}

\* variant: the macro's test dropped, control always continues
CUDA_unchecked(err) == TRUE

\* the CUDA(call) macro: TRUE when control continues past it, FALSE when it
\* prints the error and calls exit(EXIT_FAILURE)
CUDA(err) == err = cudaSuccess

(***************************************************************************)
(* State                                                                   *)
(***************************************************************************)
VARIABLES
    pc,           \* where the process is: "uninit" (my_instance not yet
                  \* initialised), "count", "populate", "select" (inside
                  \* the constructor), "ready" (constructed), "exited"
    cuDevices,    \* DeviceManager::cuDevices
    activeDev,    \* DeviceManager::activeDev
    nDevices,     \* DeviceManager::nDevices
    nativeProps,  \* the platform: descriptor of native device i at i + 1
    nativeFaults, \* the platform: the native devices whose
                  \* cudaGetDeviceProperties fails
    curDevice,    \* the runtime's current device (0 until one is set)
    discoveries,  \* history: how many times the constructor was entered
    nativeArg,    \* history: <<d>> once cudaSetDevice(d) was last issued
    lastMode,     \* history: the mode of the last sort applied
    lastCall,     \* history: <<c>>, c the record of the last call on the
                  \* constructed registry that returned to its caller
    failedQuery,  \* history: the native ids whose descriptor in cuDevices
                  \* was pushed after a failed cudaGetDeviceProperties
    thr,          \* per thread: "idle", "calling" (inside an accessor, at
                  \* getInstance), "waiting" (blocked on my_instance being
                  \* initialised by another thread), "constructing" or
                  \* "retrying" (initialising my_instance, the latter after
                  \* having waited)
    observed      \* history: the values of pc at which an accessor of some
                  \* thread read the registry

vars == <<pc, cuDevices, activeDev, nDevices, nativeProps, nativeFaults,
          curDevice, discoveries, nativeArg, lastMode, lastCall, failedQuery,
          thr, observed>>

\* what a call made by the one thread of a sequential program leaves alone
otherThreads == <<thr, observed>>

\* the positions callers pass: negative, valid, equal to size(), larger
Positions == (0 - 1)..(MaxDevices + 1)

\* history: <<u>> when a setDevice(device) hands back the position the call
\* before it returned (old := setDevice(p); setDevice(old)), u what that
\* earlier call was given and replaced; <<>> otherwise
Restores(device) ==
    IF /\ lastCall # <<>>
       /\ lastCall[1].op = "setDevice"
       /\ lastCall[1].status = "ok"
       /\ lastCall[1].ret = device
    THEN <<[p |-> lastCall[1].arg, activeBefore |-> lastCall[1].activeBefore,
           curBefore |-> lastCall[1].curBefore]>>
    ELSE <<>>

\* the threads of the process
Threads == 1..NThreads

\* the process before any access to the registry, on platform props with
\* the devices in faults failing their property query
Start(props, faults) ==
    /\ pc = "uninit"
    /\ cuDevices = <<>>
    /\ activeDev = 0
    /\ nDevices = 0
    /\ nativeProps = props
    /\ nativeFaults = faults
    /\ curDevice = 0
    /\ discoveries = 0
    /\ nativeArg = <<>>
    /\ lastMode = "unsorted"
    /\ lastCall = <<>>
    /\ failedQuery = {}
    /\ thr = [t \in Threads |-> "idle"]
    /\ observed = {}

\* any platform of up to MaxDevices devices, every property query succeeding
Init == \E props \in Platforms : Start(props, {})

(***************************************************************************)
(* Wrapper functions                                                       *)
(***************************************************************************)
getDeviceCount == nDevices

getActiveDeviceId == activeDev

\* variant: line 312 assigns old back, the switch is not recorded
setActiveDevice_stale(device, err) ==
    IF device > Len(cuDevices)
    THEN [status |-> "rejected", ret |-> 0 - 1, issued |-> FALSE,
          activeDev |-> activeDev, curDevice |-> curDevice]
    ELSE IF ~(err = cudaSuccess)
    THEN [status |-> "exit", ret |-> 0 - 1, issued |-> TRUE,
          activeDev |-> activeDev, curDevice |-> curDevice]
    ELSE [status |-> "ok", ret |-> activeDev, issued |-> TRUE,
          activeDev |-> activeDev, curDevice |-> device]

\* variant: line 313 returns device, not old
setActiveDevice_returnsNew(device, err) ==
    IF device > Len(cuDevices)
    THEN [status |-> "rejected", ret |-> 0 - 1, issued |-> FALSE,
          activeDev |-> activeDev, curDevice |-> curDevice]
    ELSE IF ~(err = cudaSuccess)
    THEN [status |-> "exit", ret |-> 0 - 1, issued |-> TRUE,
          activeDev |-> activeDev, curDevice |-> curDevice]
    ELSE [status |-> "ok", ret |-> device, issued |-> TRUE,
          activeDev |-> device, curDevice |-> device]

(***************************************************************************)
(* DeviceManager::setActiveDevice(device), with err the code the runtime   *)
(* returns should cudaSetDevice be reached: what the call does, as a       *)
(* record.  status "rejected" is the early return of -1, "exit" the CUDA   *)
(* macro ending the process, "ok" the normal return of old.                *)
(***************************************************************************)
setActiveDevice(device, err) ==
    IF device > Len(cuDevices)
    THEN [status |-> "rejected", ret |-> 0 - 1, issued |-> FALSE,
          activeDev |-> activeDev, curDevice |-> curDevice]
    ELSE IF ~CUDA(err)
    THEN [status |-> "exit", ret |-> 0 - 1, issued |-> TRUE,
          activeDev |-> activeDev, curDevice |-> curDevice]
    ELSE [status |-> "ok", ret |-> activeDev, issued |-> TRUE,
          activeDev |-> device, curDevice |-> device]

(***************************************************************************)
(* DeviceManager::getInstance(): the first access, and any access after a  *)
(* constructor that threw, enters the constructor (a function-local static *)
(* whose initialisation exits by an exception is initialised again the     *)
(* next time control passes its declaration).                              *)
(***************************************************************************)
getInstance ==
    /\ pc = "uninit"
    /\ discoveries < MaxDiscoveries
    /\ pc' = "count"
    /\ cuDevices' = <<>>
    /\ activeDev' = 0
    /\ nDevices' = 0
    /\ discoveries' = discoveries + 1
    /\ failedQuery' = {}
    /\ UNCHANGED <<nativeProps, nativeFaults, curDevice, nativeArg, lastMode,
                   lastCall>>

\* variant: the nDevices == 0 test of line 269 left out
countDevices_unchecked(err, n) ==
    IF ~(err = cudaSuccess) THEN "exit" ELSE "go"

\* lines 268-270: "exit" (CUDA macro), "throw" (no device) or "go"
countDevices(err, n) ==
    IF ~CUDA(err) THEN "exit"
    ELSE IF n = 0 THEN "throw"
    ELSE "go"

\* the constructor up to cuDevices.reserve; a thrown runtime_error is either
\* caught by the caller, which leaves my_instance uninitialised, or ends
\* the process
ctorCount ==
    /\ pc = "count"
    /\ \E err \in cudaGetDeviceCount(Len(nativeProps)) :
         LET n == IF CUDA(err) THEN Len(nativeProps) ELSE nDevices
             r == countDevices(err, n)
         IN  /\ nDevices' = n
             /\ \/ r = "exit" /\ pc' = "exited"
                \/ r = "throw" /\ pc' \in {"uninit", "exited"}
                \/ r = "go" /\ pc' = "populate"
    /\ UNCHANGED <<cuDevices, activeDev, nativeProps, nativeFaults, curDevice,
                   discoveries, nativeArg, lastMode, lastCall, failedQuery>>

\* cudaGetDeviceProperties(&dev.prop, i): the code it returns
cudaGetDeviceProperties(i) ==
    IF i \in nativeFaults THEN {cudaErrorInvalidDevice, cudaErrorUnknown}
    ELSE {cudaSuccess}

\* dev.prop after line 276, whose result is not looked at: the descriptor
\* of native device i when the query succeeded; when it failed dev.prop is
\* the uninitialised local, which may hold any descriptor
queriedProp(i, err) ==
    IF err = cudaSuccess THEN {nativeProps[i + 1]} ELSE Catalogue

\* one iteration of the loop of lines 274-280; i is cuDevices.size()
ctorPush ==
    /\ pc = "populate"
    /\ Len(cuDevices) < nDevices
    /\ LET i == Len(cuDevices)
       IN  \E err \in cudaGetDeviceProperties(i) :
             \E prop \in queriedProp(i, err) :
               /\ cuDevices' = Append(cuDevices, makeDevice(prop, i))
               /\ failedQuery' = IF err = cudaSuccess THEN failedQuery
                                 ELSE failedQuery \cup {i}
    /\ UNCHANGED <<pc, activeDev, nDevices, nativeProps, nativeFaults, curDevice,
                   discoveries, nativeArg, lastMode, lastCall>>

\* the loop's exit and line 282: sortDevices() with the default mode, none
ctorSort ==
    /\ pc = "populate"
    /\ ~(Len(cuDevices) < nDevices)
    /\ cuDevices' \in sortDevices(cuDevices, "none")
    /\ lastMode' = "none"
    /\ pc' = "select"
    /\ UNCHANGED <<activeDev, nDevices, nativeProps, nativeFaults, curDevice,
                   discoveries, nativeArg, lastCall, failedQuery>>

\* line 284: setActiveDevice(0), its result discarded
ctorSelect ==
    /\ pc = "select"
    /\ \E err \in cudaSetDevice(0, Len(nativeProps)) :
         LET r == setActiveDevice(0, err)
         IN  /\ activeDev' = r.activeDev
             /\ curDevice' = r.curDevice
             /\ nativeArg' = IF r.issued THEN <<0>> ELSE nativeArg
             /\ pc' = IF r.status = "exit" THEN "exited" ELSE "ready"
    /\ UNCHANGED <<cuDevices, nDevices, nativeProps, nativeFaults, discoveries,
                   lastMode, lastCall, failedQuery>>

\* setDevice(device) on the constructed registry
setDevice ==
    /\ pc = "ready"
    /\ \E device \in Positions :
         \E err \in cudaSetDevice(device, Len(nativeProps)) :
           LET r == setActiveDevice(device, err)
           IN  /\ activeDev' = r.activeDev
               /\ curDevice' = r.curDevice
               /\ nativeArg' = IF r.issued THEN <<device>> ELSE nativeArg
               /\ pc' = IF r.status = "exit" THEN "exited" ELSE "ready"
               /\ lastCall' =
                      IF r.status = "exit" THEN <<>>
                      ELSE <<[op |-> "setDevice", arg |-> device,
                              status |-> r.status, ret |-> r.ret,
                              activeBefore |-> activeDev, curBefore |-> curDevice,
                              restores |-> Restores(device),
                              repeat |-> FALSE, changed |-> FALSE]>>
    /\ UNCHANGED <<cuDevices, nDevices, nativeProps, nativeFaults, discoveries,
                   lastMode, failedQuery>>

\* variant: after sorting, the device that was active is looked up and
\* selected again at its new position
sortDevicesCall_reselecting ==
    /\ pc = "ready"
    /\ \E mode \in Modes :
         \E out \in sortDevices(cuDevices, mode) :
           LET moved == CHOOSE k \in DOMAIN out : out[k] = cuDevices[activeDev + 1]
           IN  /\ cuDevices' = out
               /\ lastMode' = mode
               /\ activeDev' = moved - 1
               /\ curDevice' = moved - 1
               /\ nativeArg' = <<moved - 1>>
               /\ lastCall' =
                      <<[op |-> "sortDevices", arg |-> mode, status |-> "ok",
                         ret |-> 0, activeBefore |-> activeDev,
                         curBefore |-> curDevice, restores |-> <<>>,
                         repeat |-> (mode = lastMode),
                         changed |-> (out # cuDevices)]>>
    /\ UNCHANGED <<pc, nDevices, nativeProps, nativeFaults, discoveries,
                   failedQuery>>

\* DeviceManager::getInstance().sortDevices(mode) on the constructed registry
sortDevicesCall ==
    /\ pc = "ready"
    /\ \E mode \in Modes :
         \E out \in sortDevices(cuDevices, mode) :
           /\ cuDevices' = out
           /\ lastMode' = mode
           /\ lastCall' =
                  <<[op |-> "sortDevices", arg |-> mode, status |-> "ok",
                     ret |-> 0, activeBefore |-> activeDev,
                     curBefore |-> curDevice, restores |-> <<>>,
                     repeat |-> (mode = lastMode),
                     changed |-> (out # cuDevices)]>>
    /\ UNCHANGED <<pc, activeDev, nDevices, nativeProps, nativeFaults, curDevice,
                   discoveries, nativeArg, failedQuery>>

\* the calls of a single-threaded caller
Next ==
    \/ getInstance /\ UNCHANGED otherThreads
    \/ ctorCount /\ UNCHANGED otherThreads
    \/ ctorPush /\ UNCHANGED otherThreads
    \/ ctorSort /\ UNCHANGED otherThreads
    \/ ctorSelect /\ UNCHANGED otherThreads
    \/ setDevice /\ UNCHANGED otherThreads
    \/ sortDevicesCall /\ UNCHANGED otherThreads

Spec == Init /\ [][Next]_vars

\* the platforms of up to MaxFewDevices devices
FewPlatforms == SeqUpTo(Catalogue, MaxFewDevices)

\* the native ids of a platform
NativeIds(props) == 0..(Len(props) - 1)

\* any small platform, any of its devices failing its property query
InitFaulty ==
    \E props \in FewPlatforms :
        \E faults \in SUBSET NativeIds(props) : Start(props, faults)

\* the single-threaded caller on a platform whose property queries may fail
SpecFaulty == InitFaulty /\ [][Next]_vars

(***************************************************************************)
(* Properties                                                              *)
(***************************************************************************)
\* the registry is constructed and its process is running
Constructed == pc = "ready"

LastWas(op) == lastCall # <<>> /\ lastCall[1].op = op

\* C1: in every state of a constructed registry, whatever positions
\* setDevice was called with and however sortDevices was interleaved,
\* 0 <= activeDev < cuDevices.size().
C1_ActiveIndexInRange ==
    Constructed => (0 <= activeDev /\ activeDev < Len(cuDevices))

\* C1 witness: a registry that was re-sorted, then switched away from
\* position 0, then given a position beyond size(), which it turned down.
C1_Witness ==
    /\ Constructed
    /\ lastMode # "none"
    /\ activeDev > 0
    /\ LastWas("setDevice")
    /\ lastCall[1].status = "rejected"

\* C2 (as claimed): on a constructed registry the runtime's current device
\* is the native id of the descriptor at the active position.
C2_ContextIsActiveDescriptor ==
    Constructed =>
        (activeDev + 1 \in DOMAIN cuDevices
            => curDevice = cuDevices[activeDev + 1].nativeId)

\* the ranking keys of a mode, most significant first
RankKeys(mode, d) ==
    CASE mode = "compute" -> <<d.prop.major, d.prop.minor, d.flops, d.prop.totalGlobalMem>>
      [] mode = "flops"   -> <<d.flops, d.prop.totalGlobalMem, d.prop.major, d.prop.minor>>
      [] mode = "memory"  -> <<d.prop.totalGlobalMem, d.flops, d.prop.major, d.prop.minor>>
      [] OTHER            -> <<>>

\* a ranks strictly ahead of b: greater on the first key they differ on,
\* or equal on all keys and of smaller native id
RanksAhead(mode, a, b) ==
    LET ka == RankKeys(mode, a)
        kb == RankKeys(mode, b)
    IN  \/ \E i \in DOMAIN ka : ka[i] > kb[i] /\ \A j \in 1..(i - 1) : ka[j] = kb[j]
        \/ ka = kb /\ a.nativeId < b.nativeId

\* C3 (as claimed): after sortDevices(mode), mode one of compute, flops,
\* memory, the devices are in descending lexicographic order of the mode's
\* keys, devices equal on all keys in ascending native id.
C3_LexicographicOrder ==
    (Constructed /\ lastMode \in {"compute", "flops", "memory"}) =>
        \A i, j \in DOMAIN cuDevices :
            i < j => RanksAhead(lastMode, cuDevices[i], cuDevices[j])

\* C4 (as claimed): when the ordering last applied is none (the
\* constructor's sort or sortDevices(none)), the device at position i has
\* native id i.
C4_NativeOrder ==
    (Constructed /\ lastMode = "none") =>
        \A i \in DOMAIN cuDevices : cuDevices[i].nativeId = i - 1

\* C5 (as claimed): sortDevices(mode) applied again to devices that
\* sortDevices(mode) ordered last leaves the sequence as it is.
C5_SortIdempotent ==
    (LastWas("sortDevices") /\ lastCall[1].repeat) => ~lastCall[1].changed

\* C6 (as claimed): cudaSetDevice is only ever issued with an argument in
\* [0, cuDevices.size()).
C6_NativeCallInBounds ==
    nativeArg # <<>> => (0 <= nativeArg[1] /\ nativeArg[1] < Len(cuDevices))

\* C7: after a setDevice(p) that returned normally, getActiveDeviceId()
\* is p.
C7_SetThenGet ==
    (Constructed /\ LastWas("setDevice") /\ lastCall[1].status = "ok") =>
        getActiveDeviceId = lastCall[1].arg

\* C7 witness: on a re-sorted registry a setDevice(p) returned normally and
\* moved the active position.
C7_Witness ==
    /\ Constructed
    /\ lastMode # "none"
    /\ LastWas("setDevice")
    /\ lastCall[1].status = "ok"
    /\ lastCall[1].arg # lastCall[1].activeBefore

\* C8: a setDevice(p) that returns normally returns the position active
\* before it; and when the next call is setDevice(old), old the value just
\* returned, that call returns p and leaves activeDev and the runtime's
\* current device as they were before setDevice(p).
C8_SaveRestore ==
    (LastWas("setDevice") /\ lastCall[1].status = "ok") =>
        /\ lastCall[1].ret = lastCall[1].activeBefore
        /\ lastCall[1].restores # <<>> =>
             /\ lastCall[1].ret = lastCall[1].restores[1].p
             /\ activeDev = lastCall[1].restores[1].activeBefore
             /\ curDevice = lastCall[1].restores[1].curBefore

\* C8 witness: setDevice(p) with p another position than the active one,
\* directly followed by setDevice(old), both returned normally.
C8_Witness ==
    /\ Constructed
    /\ LastWas("setDevice")
    /\ lastCall[1].status = "ok"
    /\ lastCall[1].restores # <<>>
    /\ lastCall[1].restores[1].p # lastCall[1].arg

\* C9: on a platform without devices the constructor never gets past the
\* device count (it ends in the runtime_error or in the CUDA macro's exit),
\* and a constructed registry has getDeviceCount() >= 1 and
\* getDeviceCount() = cuDevices.size().
C9_NoEmptyRegistry ==
    /\ Len(nativeProps) = 0 => pc \in {"uninit", "count", "exited"}
    /\ Constructed => (getDeviceCount >= 1 /\ getDeviceCount = Len(cuDevices))

\* C9 witness: the platform has no device, the count succeeded with 0, the
\* constructor threw and the caller caught the runtime_error.
C9_Witness ==
    /\ Len(nativeProps) = 0
    /\ discoveries = 1
    /\ pc = "uninit"

\* C10 (as claimed): the constructor, and with it discovery, is entered at
\* most once in the life of the process.
C10_DiscoveryAtMostOnce == discoveries <= 1

(***************************************************************************)
(* Threads racing for the registry.  my_instance is a function-local       *)
(* static: the first thread to reach its declaration initialises it, a     *)
(* thread that reaches it meanwhile waits for the initialisation to end,   *)
(* and when the constructor throws the initialisation is not complete and  *)
(* a waiting thread takes it over.                                         *)
(***************************************************************************)
\* what a thread at the declaration of my_instance does
staticGuard(stage) ==
    CASE stage = "uninit" -> "initialise"
      [] stage = "ready"  -> "pass"
      [] OTHER            -> "wait"

\* the registry and the platform: everything but the threads' bookkeeping
registry == <<pc, cuDevices, activeDev, nDevices, nativeProps, nativeFaults,
              curDevice, discoveries, nativeArg, lastMode, lastCall, failedQuery>>

Constructing(t) == thr[t] \in {"constructing", "retrying"}

\* thread t calls an accessor (getDeviceCount, getActiveDeviceId, ...)
call(t) ==
    /\ pc # "exited"
    /\ thr[t] = "idle"
    /\ thr' = [thr EXCEPT ![t] = "calling"]
    /\ UNCHANGED <<registry, observed>>

\* thread t finds my_instance being initialised and blocks
wait(t) ==
    /\ thr[t] = "calling"
    /\ staticGuard(pc) = "wait"
    /\ thr' = [thr EXCEPT ![t] = "waiting"]
    /\ UNCHANGED <<registry, observed>>

\* thread t finds my_instance uninitialised and enters the constructor
enter(t) ==
    /\ thr[t] \in {"calling", "waiting"}
    /\ staticGuard(pc) = "initialise"
    /\ getInstance
    /\ thr' = [thr EXCEPT ![t] = IF thr[t] = "waiting" THEN "retrying"
                                  ELSE "constructing"]
    /\ UNCHANGED observed

\* the thread initialising my_instance takes a step of the constructor; a
\* runtime_error it catches ends its accessor call, the constructor's
\* return leaves it in getInstance with my_instance initialised
construct(t) ==
    /\ Constructing(t)
    /\ \/ ctorCount
       \/ ctorPush
       \/ ctorSort
       \/ ctorSelect
    /\ thr' = [thr EXCEPT ![t] = CASE pc' = "uninit" -> "idle"
                                    [] pc' = "ready"  -> "calling"
                                    [] OTHER          -> thr[t]]
    /\ UNCHANGED observed

\* getInstance returns my_instance to thread t and its accessor reads it
access(t) ==
    /\ thr[t] \in {"calling", "waiting"}
    /\ staticGuard(pc) = "pass"
    /\ observed' = observed \cup {pc}
    /\ thr' = [thr EXCEPT ![t] = "idle"]
    /\ UNCHANGED registry

NextThreads ==
    \E t \in Threads :
        \/ call(t)
        \/ wait(t)
        \/ enter(t)
        \/ construct(t)
        \/ access(t)

\* any small platform, every property query succeeding
InitFew == \E props \in FewPlatforms : Start(props, {})

SpecThreads == InitFew /\ [][NextThreads]_vars

\* C11 (as claimed): when threads race on the first access exactly one
\* discovery runs: a thread that found the initialisation in progress
\* never runs the constructor itself, the constructor is entered once, and
\* no accessor reads the registry at any stage but the constructed one.
C11_OneDiscovery ==
    /\ \A t \in Threads : thr[t] # "retrying"
    /\ discoveries <= 1
    /\ observed \subseteq {"ready"}

\* the part of C11 that does not depend on the constructor throwing
C11_NoPartialObservation ==
    /\ Cardinality({t \in Threads : Constructing(t)}) <= 1
    /\ observed \subseteq {"ready"}
    /\ (Len(nativeProps) > 0 => discoveries <= 1)

\* C12 (as claimed): no constructed registry holds a descriptor that was
\* pushed after a failed native query, and activeDev is the position of
\* the last cudaSetDevice issued, which succeeded.
C12_NativeErrorsFatal ==
    Constructed => (failedQuery = {} /\ nativeArg = <<activeDev>>)

(***************************************************************************)
(* Lookups and reports                                                     *)
(***************************************************************************)
\* what an element read outside cuDevices may hold
Garbage == {makeDevice(prop, i) : prop \in Catalogue, i \in Positions}

\* cuDevices[device]: vector::operator[] does no bound check; a read
\* outside [0, size()) is flagged oob and may yield anything
vectorAt(device) ==
    IF device \in 0..(Len(cuDevices) - 1)
    THEN [oob |-> FALSE, elems |-> {cuDevices[device + 1]}]
    ELSE [oob |-> TRUE, elems |-> Garbage]

\* getDeviceNativeId(device): the values it may return, and whether it read
\* outside cuDevices
getDeviceNativeId(device) ==
    IF device < Len(cuDevices)
    THEN [oob |-> vectorAt(device).oob,
          rets |-> {e.nativeId : e \in vectorAt(device).elems}]
    ELSE [oob |-> FALSE, rets |-> {0 - 1}]

\* getDeviceProp(device), likewise
getDeviceProp(device) ==
    IF device < Len(cuDevices)
    THEN [oob |-> vectorAt(device).oob,
          rets |-> {e.prop : e \in vectorAt(device).elems}]
    ELSE [oob |-> vectorAt(0).oob, rets |-> {e.prop : e \in vectorAt(0).elems}]

Digit(d) ==
    CASE d = 0 -> "0" [] d = 1 -> "1" [] d = 2 -> "2" [] d = 3 -> "3"
      [] d = 4 -> "4" [] d = 5 -> "5" [] d = 6 -> "6" [] d = 7 -> "7"
      [] d = 8 -> "8" [] d = 9 -> "9"

\* toString<T>(val) for an integer: operator<< writes it in decimal
RECURSIVE toString(_)
toString(val) ==
    IF val < 0 THEN "-" \o toString(0 - val)
    ELSE IF val < 10 THEN Digit(val)
    ELSE toString(val \div 10) \o Digit(val % 10)

\* variant: the !!(mem_gpu_total % (1024 * 1024)) term left out
memoryMB_truncated(mem_gpu_total) == mem_gpu_total \div (1024 * 1024)

\* lines 175-176: the number printed before " MB"
memoryMB(mem_gpu_total) ==
    (mem_gpu_total \div (1024 * 1024))
    + (IF mem_gpu_total % (1024 * 1024) # 0 THEN 1 ELSE 0)

\* variant: show_braces compares with position 0, not the active position
getDeviceInfo_firstMarked(device, dev) ==
    LET show_braces == (0 = device)
        id == (IF show_braces THEN "[" ELSE "-") \o toString(device)
              \o (IF show_braces THEN "]" ELSE "-")
        memory == toString(memoryMB(dev.totalGlobalMem)) \o " MB"
        compute == "CUDA Compute " \o toString(dev.major) \o "."
                   \o toString(dev.minor)
    IN  [id |-> id, name |-> dev.name, memory |-> memory, compute |-> compute,
         info |-> id \o " " \o dev.name \o ", " \o memory \o ", " \o compute \o "\n"]

\* getDeviceInfo(device), dev being what getDeviceProp(device) returned: the
\* line, and the parts it is put together from
getDeviceInfo(device, dev) ==
    LET show_braces == (getActiveDeviceId = device)
        id == (IF show_braces THEN "[" ELSE "-") \o toString(device)
              \o (IF show_braces THEN "]" ELSE "-")
        memory == toString(memoryMB(dev.totalGlobalMem)) \o " MB"
        compute == "CUDA Compute " \o toString(dev.major) \o "."
                   \o toString(dev.minor)
    IN  [id |-> id, name |-> dev.name, memory |-> memory, compute |-> compute,
         info |-> id \o " " \o dev.name \o ", " \o memory \o ", " \o compute \o "\n"]

\* what nvDriverVersion and the runtime's version may come out as
DriverVersions == {"", "340.29"}
RuntimeVersions == {"6", "6.5"}

\* getPlatformInfo(), given the two version strings
getPlatformInfo(driverVersion, cudaRuntime) ==
    "Platform: CUDA Toolkit " \o cudaRuntime
    \o (IF driverVersion # "" THEN ", Driver: " \o driverVersion ELSE "")
    \o "\n"

\* the first line of getInfo(); the version macros come from headers
header == "ArrayFire v" \o "AF_VERSION" \o "AF_VERSION_MINOR" \o " (CUDA, "
          \o "64-bit Linux" \o ", build " \o "REVISION" \o ")\n"

RECURSIVE joined(_)
joined(lines) ==
    IF lines = <<>> THEN ""
    ELSE lines[1].info \o joined(Tail(lines))

\* getInfo(): the loop of lines 157-159 runs i over [0, getDeviceCount())
getInfo(driverVersion, cudaRuntime, devs) ==
    LET lines == [k \in 1..getDeviceCount |-> getDeviceInfo(k - 1, devs[k])]
    IN  [lines |-> lines,
         info |-> header \o getPlatformInfo(driverVersion, cudaRuntime)
                  \o joined(lines)]

\* a call of getDeviceNativeId(device)
getDeviceNativeIdCall ==
    /\ pc = "ready"
    /\ \E device \in Positions :
         \E ret \in getDeviceNativeId(device).rets :
           lastCall' = <<[op |-> "getDeviceNativeId", arg |-> device,
                          oob |-> getDeviceNativeId(device).oob, ret |-> ret]>>
    /\ UNCHANGED <<pc, cuDevices, activeDev, nDevices, nativeProps, nativeFaults,
                   curDevice, discoveries, nativeArg, lastMode, failedQuery>>

\* a call of getDeviceProp(device)
getDevicePropCall ==
    /\ pc = "ready"
    /\ \E device \in Positions :
         \E ret \in getDeviceProp(device).rets :
           lastCall' = <<[op |-> "getDeviceProp", arg |-> device,
                          oob |-> getDeviceProp(device).oob, ret |-> ret]>>
    /\ UNCHANGED <<pc, cuDevices, activeDev, nDevices, nativeProps, nativeFaults,
                   curDevice, discoveries, nativeArg, lastMode, failedQuery>>

\* a call of getDeviceInfo(device)
getDeviceInfoCall ==
    /\ pc = "ready"
    /\ \E device \in Positions :
         \E dev \in getDeviceProp(device).rets :
           lastCall' = <<[op |-> "getDeviceInfo", arg |-> device,
                          oob |-> getDeviceProp(device).oob,
                          ret |-> getDeviceInfo(device, dev)]>>
    /\ UNCHANGED <<pc, cuDevices, activeDev, nDevices, nativeProps, nativeFaults,
                   curDevice, discoveries, nativeArg, lastMode, failedQuery>>

\* a call of getInfo(): getPlatformInfo may end in a runtime_error ("Invalid
\* driver"), which the caller catches or not, or in the CUDA macro's exit
getInfoCall ==
    /\ pc = "ready"
    /\ \/ /\ pc' = "exited"
          /\ lastCall' = <<>>
       \/ /\ pc' = pc
          /\ lastCall' = <<[op |-> "getInfo", thrown |-> TRUE]>>
       \/ /\ pc' = pc
          /\ \E driverVersion \in DriverVersions, cudaRuntime \in RuntimeVersions :
               \E devs \in {ds \in [1..getDeviceCount -> Catalogue] :
                              \A k \in 1..getDeviceCount :
                                 ds[k] \in getDeviceProp(k - 1).rets} :
                 lastCall' = <<[op |-> "getInfo", thrown |-> FALSE,
                                ret |-> getInfo(driverVersion, cudaRuntime, devs)]>>
    /\ UNCHANGED <<cuDevices, activeDev, nDevices, nativeProps, nativeFaults,
                   curDevice, discoveries, nativeArg, lastMode, failedQuery>>

\* the single-threaded caller, lookups and reports included
NextQuery ==
    \/ Next
    \/ getDeviceNativeIdCall /\ UNCHANGED otherThreads
    \/ getDevicePropCall /\ UNCHANGED otherThreads
    \/ getDeviceInfoCall /\ UNCHANGED otherThreads
    \/ getInfoCall /\ UNCHANGED otherThreads

SpecQuery == InitFew /\ [][NextQuery]_vars

InRange(device) == device \in 0..(Len(cuDevices) - 1)

\* C13 (as claimed): getDeviceNativeId and getDeviceProp never read outside
\* cuDevices; for a position in [0, size()) they return that element's
\* nativeId and descriptor, for any other getDeviceNativeId returns -1 and
\* getDeviceProp the descriptor at position 0.
C13_SoftLookups ==
    /\ LastWas("getDeviceNativeId") =>
         /\ ~lastCall[1].oob
         /\ lastCall[1].ret = IF InRange(lastCall[1].arg)
                              THEN cuDevices[lastCall[1].arg + 1].nativeId
                              ELSE 0 - 1
    /\ LastWas("getDeviceProp") =>
         /\ ~lastCall[1].oob
         /\ lastCall[1].ret = IF InRange(lastCall[1].arg)
                              THEN cuDevices[lastCall[1].arg + 1].prop
                              ELSE cuDevices[1].prop

\* C14 (as claimed): the flops stored for every device is the exact product
\* multiProcessorCount * cores * clockRate, which therefore fits an int.
C14_ExactThroughput ==
    Constructed =>
        \A k \in DOMAIN cuDevices :
            LET prop == cuDevices[k].prop
                units == prop.multiProcessorCount
                         * compute2cores(prop.major, prop.minor)
            IN  /\ (units = 0 \/ prop.clockRate <= 2147483647 \div units)
                /\ cuDevices[k].flops = units * prop.clockRate

\* the platform holds exactly the three devices of the ranking scenario,
\* in any native order
Scenario ==
    /\ Len(nativeProps) = 3
    /\ {nativeProps[k] : k \in DOMAIN nativeProps} = {K35, M50, F20}

\* C15: on the scenario's platform, whatever order the devices were in,
\* sortDevices(flops) leaves the scores 2,560,000 > 2,145,600 > 384,000
\* and sortDevices(compute) leaves the revisions 5.0 > 3.5 > 2.0.
C15_ScenarioOrder ==
    (Constructed /\ Scenario) =>
        /\ lastMode = "flops" =>
             [k \in DOMAIN cuDevices |-> cuDevices[k].flops]
                 = <<2560000, 2145600, 384000>>
        /\ lastMode = "compute" =>
             [k \in DOMAIN cuDevices |->
                 <<cuDevices[k].prop.major, cuDevices[k].prop.minor>>]
                 = << <<5, 0>>, <<3, 5>>, <<2, 0>> >>

\* C15 witness: on the scenario's platform a sortDevices(flops) reordered
\* the devices.
C15_Witness ==
    /\ Constructed
    /\ Scenario
    /\ LastWas("sortDevices")
    /\ lastCall[1].arg = "flops"
    /\ lastCall[1].changed

\* C16: the memory figure of a device line is the total memory in bytes
\* divided by 1048576 and rounded up, followed by " MB"; 3145728 bytes print
\* as 3 MB and 3145729 bytes as 4 MB.
RoundedUpMB(m) ==
    CHOOSE k \in 0..((m \div 1048576) + 1) :
        k * 1048576 >= m /\ (k = 0 \/ (k - 1) * 1048576 < m)

\* byte counts around the megabyte boundaries
ByteCounts == {0, 1, 1048575, 1048576, 1048577, 2097151, 2097152, 1073741825}

C16_MemoryRoundedUp ==
    (LastWas("getDeviceInfo") /\ InRange(lastCall[1].arg)) =>
        LET m == cuDevices[lastCall[1].arg + 1].prop.totalGlobalMem
        IN  /\ lastCall[1].ret.memory = toString(RoundedUpMB(m)) \o " MB"
            /\ \A b \in ByteCounts : memoryMB(b) = RoundedUpMB(b)
            /\ m = 3145728 => lastCall[1].ret.memory = "3 MB"
            /\ m = 3145729 => lastCall[1].ret.memory = "4 MB"

\* C16 witness: getDeviceInfo of a device whose memory is no whole number of
\* megabytes printed the next whole number.
C16_Witness ==
    /\ LastWas("getDeviceInfo")
    /\ InRange(lastCall[1].arg)
    /\ cuDevices[lastCall[1].arg + 1].prop.totalGlobalMem = 3145729
    /\ lastCall[1].ret.memory = "4 MB"

\* the descriptor discovery builds for native device i
Discovered(i) == makeDevice(nativeProps[i + 1], i)

\* C17: whatever sortDevices calls were made, cuDevices has as many
\* elements as discovery found, every native id 0..n-1 appears at exactly
\* one position, and the element there is the descriptor discovery built.
C17_SortPermutes ==
    Constructed =>
        /\ Len(cuDevices) = Len(nativeProps)
        /\ getDeviceCount = Len(nativeProps)
        /\ \A i \in NativeIds(nativeProps) :
             Cardinality({k \in DOMAIN cuDevices : cuDevices[k].nativeId = i}) = 1
        /\ \A k \in DOMAIN cuDevices :
             /\ cuDevices[k].nativeId \in NativeIds(nativeProps)
             /\ cuDevices[k] = Discovered(cuDevices[k].nativeId)

\* C17 witness: a sortDevices call reordered a registry of three devices.
C17_Witness ==
    /\ Constructed
    /\ Len(cuDevices) = 3
    /\ LastWas("sortDevices")
    /\ lastCall[1].changed
    /\ lastCall[1].arg # "none"

\* C18: a sortDevices call leaves activeDev, the device count and the
\* runtime's current device as they were and issues no cudaSetDevice: the
\* last one issued is still the one that selected the current device.
C18_SortFrame ==
    (Constructed /\ LastWas("sortDevices")) =>
        /\ getActiveDeviceId = lastCall[1].activeBefore
        /\ curDevice = lastCall[1].curBefore
        /\ nativeArg = <<lastCall[1].curBefore>>
        /\ getDeviceCount = Len(nativeProps)

\* C18 witness: a sortDevices call moved another descriptor to the active
\* position, which is not position 0.
C18_Witness ==
    /\ Constructed
    /\ LastWas("sortDevices")
    /\ lastCall[1].changed
    /\ activeDev > 0
    /\ cuDevices[activeDev + 1].nativeId # activeDev

\* the id marker of the line for position p, with and without brackets
Bracketed(p) == "[" \o toString(p) \o "]"
Unbracketed(p) == "-" \o toString(p) \o "-"

\* C19: the report getInfo returns has getDeviceCount() device lines, the
\* line at position p describing cuDevices[p], and the line of position p
\* carries the brackets if and only if p is getActiveDeviceId(), which is
\* the case for exactly one line.
C19_ReportLines ==
    (Constructed /\ LastWas("getInfo") /\ ~lastCall[1].thrown) =>
        LET lines == lastCall[1].ret.lines
        IN  /\ Len(lines) = getDeviceCount
            /\ \A p \in 0..(getDeviceCount - 1) :
                 /\ lines[p + 1].name = cuDevices[p + 1].prop.name
                 /\ lines[p + 1].id \in {Bracketed(p), Unbracketed(p)}
                 /\ lines[p + 1].id = Bracketed(p) <=> p = getActiveDeviceId
            /\ Cardinality({p \in 0..(getDeviceCount - 1) :
                               lines[p + 1].id = Bracketed(p)}) = 1

\* C19 witness: a report of two devices, the second position active, on a
\* re-sorted registry.
C19_Witness ==
    /\ Constructed
    /\ LastWas("getInfo")
    /\ ~lastCall[1].thrown
    /\ Len(lastCall[1].ret.lines) = 2
    /\ activeDev = 1
    /\ lastMode # "none"

====
